---- MODULE Spec2Model ----
(***************************************************************************)
(* The template-guided placement engine of ppt_generator                   *)
(* (backend/pptx_engine/slide_writer.py): the text-fitting heuristics, the *)
(* per-slide placeholder fill with its usage ledger, layout selection and  *)
(* the corner placement of free images; the slide planners                 *)
(* (heuristics.py, slide_planner.py) and the LLM-guided builder (app.py).  *)
(*                                                                         *)
(* Conventions.  Lengths are held in hundredths of an inch (one unit is    *)
(* 9144 EMU), so that areas stay within TLC's integers; a text is held by  *)
(* what the code reads of it (an identity and its length); a layout hint   *)
(* is held as the set of the keywords the code searches it for.  Font      *)
(* sizes are whole points.                                                 *)
(***************************************************************************)
EXTENDS Integers, Sequences, FiniteSets, TLC

VARIABLES font_call, bullets_call, placement_call, fill_call, doc, plan_call,
          limit_call, guided

vars == <<font_call, bullets_call, placement_call, fill_call, doc, plan_call,
         limit_call, guided>>

\* The value of a harness variable that a specification does not use.
Idle == [pc |-> "idle"]

Max(a, b) == IF a >= b THEN a ELSE b
Min(a, b) == IF a <= b THEN a ELSE b

(***************************************************************************)
(* Units                                                                   *)
(***************************************************************************)
EmuPerInch == 914400
EmuPerPt == 12700
\* EMU of one hundredth of an inch.
EmuPerUnit == EmuPerInch \div 100
\* One square inch, in squared units.
SqInch == 100 * 100

\* None, for an absent font descriptor.
NoFont == 0

\* (shape.width / 914400) * (shape.height / 914400), compared with a whole
\* number of square inches n.
AreaBelow(shape, n) == shape.width * shape.height < n * SqInch

(***************************************************************************)
(* Font fit: _calculate_ultra_safe_font                                    *)
(***************************************************************************)
\* Factor 1 with the multipliers of its two longest tiers exchanged.
LengthFactorSwapped(text_length) ==
    IF text_length > 150 THEN 6
    ELSE IF text_length > 100 THEN 5
    ELSE IF text_length > 50 THEN 7
    ELSE IF text_length > 30 THEN 8
    ELSE 10

\* Factor 1 with each tier starting at its boundary length.
LengthFactorFromBoundary(text_length) ==
    IF text_length >= 150 THEN 5
    ELSE IF text_length >= 100 THEN 6
    ELSE IF text_length >= 50 THEN 7
    ELSE IF text_length >= 30 THEN 8
    ELSE 10

\* Factor 1 of the reduction, in tenths.
LengthFactor(text_length) ==
    IF text_length > 150 THEN 5
    ELSE IF text_length > 100 THEN 6
    ELSE IF text_length > 50 THEN 7
    ELSE IF text_length > 30 THEN 8
    ELSE 10

\* Factor 2 of the reduction, in tenths.
AreaFactor(shape) ==
    IF AreaBelow(shape, 5) THEN 5
    ELSE IF AreaBelow(shape, 10) THEN 6
    ELSE IF AreaBelow(shape, 20) THEN 8
    ELSE 10

\* Factor 3 of the reduction, in tenths.
TitleFactor(text_length, is_title) ==
    IF is_title /\ text_length > 50 THEN 7 ELSE 10

\* The products base_size * size_reduction that the chained double
\* multiplications leave just below a whole number the exact product reaches
\* (base sizes up to 100): int() then yields one less than the exact quotient.
RoundedBelow ==
    { <<25, 5, 8, 7>>, <<25, 7, 8, 10>>, <<25, 8, 5, 7>>, <<25, 8, 10, 7>>,
      <<25, 10, 8, 7>>, <<50, 5, 8, 7>>, <<50, 7, 8, 10>>, <<50, 8, 5, 7>>,
      <<50, 8, 10, 7>>, <<50, 10, 8, 7>>, <<75, 5, 8, 7>>, <<75, 7, 8, 10>>,
      <<75, 8, 5, 7>>, <<75, 8, 10, 7>>, <<75, 10, 8, 7>>, <<90, 7, 10, 10>>,
      <<90, 10, 10, 7>>, <<100, 5, 8, 7>>, <<100, 7, 8, 10>>,
      <<100, 7, 10, 7>>, <<100, 8, 5, 7>>, <<100, 8, 10, 7>>,
      <<100, 10, 8, 7>> }

\* int(base_size * size_reduction).
ReducedSize(base_size, fl, fa, ft) ==
    ((base_size * fl * fa * ft) \div 1000)
        - (IF <<base_size, fl, fa, ft>> \in RoundedBelow THEN 1 ELSE 0)

TitleFloor == 8
BodyFloor == 6
DefaultTitleSize == 24
DefaultBodySize == 18

_calculate_ultra_safe_font(font_info, text_length, shape, is_title) ==
    LET base_size == IF font_info = NoFont
                     THEN (IF is_title THEN DefaultTitleSize ELSE DefaultBodySize)
                     ELSE font_info
    IN Max(ReducedSize(base_size, LengthFactor(text_length), AreaFactor(shape),
                       TitleFactor(text_length, is_title)),
           IF is_title THEN TitleFloor ELSE BodyFloor)

(***************************************************************************)
(* Bounds and input sets                                                   *)
(***************************************************************************)
MaxTextLen == 160
MaxBase == 40

\* Placeholder rectangles (width, height), each side of the area thresholds
\* 5, 10, 20 and 30 square inches and of the 0.4 inch margin.
Shapes ==
    { [width |-> 800, height |-> 30],  [width |-> 250, height |-> 200],
      [width |-> 800, height |-> 100], [width |-> 800, height |-> 200],
      [width |-> 600, height |-> 400], [width |-> 900, height |-> 450] }

FontInfos == {NoFont} \cup (6 .. MaxBase)

(***************************************************************************)
(* SpecFont: one text that grows by a character at a time in a fixed       *)
(* placeholder, refitted after each character.                             *)
(***************************************************************************)
FontFit(c, text_length) ==
    _calculate_ultra_safe_font(c.font_info, text_length, c.shape, c.is_title)

InitFont ==
    /\ \E s \in Shapes, f \in FontInfos, t \in BOOLEAN :
          font_call = [pc |-> "fit", shape |-> s, font_info |-> f, is_title |-> t,
                       text_length |-> 0,
                       new_size |-> _calculate_ultra_safe_font(f, 0, s, t),
                       smallest_before |-> _calculate_ultra_safe_font(f, 0, s, t)]
    /\ bullets_call = Idle
    /\ placement_call = Idle
    /\ fill_call = Idle
    /\ doc = Idle
    /\ plan_call = Idle
    /\ limit_call = Idle
    /\ guided = Idle

\* The text gets one character longer and is fitted again; smallest_before
\* keeps the smallest size any shorter text was given.
GrowText ==
    /\ font_call.pc = "fit"
    /\ font_call.text_length < MaxTextLen
    /\ font_call' = [font_call EXCEPT
                       !.text_length = @ + 1,
                       !.new_size = FontFit(font_call, font_call.text_length + 1),
                       !.smallest_before = Min(@, font_call.new_size)]
    /\ UNCHANGED <<bullets_call, placement_call, fill_call, doc, plan_call,
                 limit_call, guided>>

NextFont == GrowText

SpecFont == InitFont /\ [][NextFont]_vars

\* C5: for a fixed placeholder, base size and title flag, the fitted font size
\* never grows with the text: the size given to a text is at most the size
\* given to every shorter text.
FontSizeMonotone ==
    font_call.pc = "fit" => font_call.new_size <= font_call.smallest_before

\* C5 witness: a text past the 150-character threshold whose size was reduced
\* below the one its 30-character prefix had.
FontSizeReducedPast150 ==
    /\ font_call.pc = "fit"
    /\ font_call.text_length > 150
    /\ font_call.new_size < FontFit(font_call, 30)
    /\ font_call.new_size > (IF font_call.is_title THEN TitleFloor ELSE BodyFloor)

(***************************************************************************)
(* Bullet capacity: _calculate_safe_bullets_for_shape                      *)
(***************************************************************************)
\* Texts, as the code reads them: which text it is and how long it is.
Short == [id |-> "short", len |-> 7]
Line40 == [id |-> "line40", len |-> 40]
Para == [id |-> "para", len |-> 90]
Long220 == [id |-> "long220", len |-> 220]
Texts == {Short, Line40, Para, Long220}

\* Inches(0.4), in units.
MarginUnits == 40
\* Characters assumed to fit one line.
CharsPerLine == 40

\* max(1, len(str(bullet)) // 40 + 1)
\* Every bullet is taken for one line.
EstimatedLinesOne(bullet) == 1

\* The lines of a bullet taken as max(1, ceil(len / 40)).
EstimatedLinesCeil(bullet) == Max(1, (bullet.len + CharsPerLine - 1) \div CharsPerLine)

EstimatedLines(bullet) == Max(1, (bullet.len \div CharsPerLine) + 1)

\* int(font_size * 1.5 * 12700)
LineHeightEmu(font_size) == (font_size * 3 * EmuPerPt) \div 2

\* The font size the capacity estimate reads.
CapacityFontSize(font_info) == IF font_info = NoFont THEN DefaultBodySize ELSE font_info

AvailableHeightEmu(shape) == shape.height * EmuPerUnit - MarginUnits * EmuPerUnit

\* The loop that stops at the first bullet that still fits, without adding it.
RECURSIVE FittingPrefixOffByOne(_, _, _, _, _)
FittingPrefixOffByOne(bullets, i, total_height_needed, line_height_emu, available) ==
    IF i > Len(bullets) \/ total_height_needed > available THEN 0
    ELSE 1 + FittingPrefixOffByOne(bullets, i + 1,
                 total_height_needed + EstimatedLines(bullets[i]) * line_height_emu,
                 line_height_emu, available)

\* The loop over the bullets: how many leading bullets fit, from bullet i on,
\* total_height_needed being what the bullets before i take.
RECURSIVE FittingPrefix(_, _, _, _, _)
FittingPrefix(bullets, i, total_height_needed, line_height_emu, available) ==
    IF i > Len(bullets) THEN 0
    ELSE LET bullet_height == EstimatedLines(bullets[i]) * line_height_emu
         IN IF total_height_needed + bullet_height <= available
            THEN 1 + FittingPrefix(bullets, i + 1, total_height_needed + bullet_height,
                                   line_height_emu, available)
            ELSE 0

_calculate_safe_bullets_for_shape(shape, font_info, bullets) ==
    LET max_bullets == FittingPrefix(bullets, 1, 0,
                                     LineHeightEmu(CapacityFontSize(font_info)),
                                     AvailableHeightEmu(shape))
    IN IF max_bullets > 1 THEN Max(1, max_bullets - 1) ELSE max_bullets

\* The estimated height of the first k bullets.
RECURSIVE AccumulatedHeight(_, _, _)
AccumulatedHeight(bullets, k, line_height_emu) ==
    IF k = 0 THEN 0
    ELSE AccumulatedHeight(bullets, k - 1, line_height_emu)
             + EstimatedLines(bullets[k]) * line_height_emu

(***************************************************************************)
(* SpecBullets: a bullet list that grows by a bullet at a time, its        *)
(* capacity in a fixed placeholder computed after each.                    *)
(***************************************************************************)
MaxListLen == 3

InitBullets ==
    /\ \E s \in Shapes, f \in FontInfos :
          bullets_call = [pc |-> "capacity", shape |-> s, font_info |-> f,
                          bullets |-> <<>>,
                          max_bullets |-> _calculate_safe_bullets_for_shape(s, f, <<>>)]
    /\ font_call = Idle
    /\ placement_call = Idle
    /\ fill_call = Idle
    /\ doc = Idle
    /\ plan_call = Idle
    /\ limit_call = Idle
    /\ guided = Idle

AppendBullet ==
    /\ bullets_call.pc = "capacity"
    /\ Len(bullets_call.bullets) < MaxListLen
    /\ \E t \in Texts :
          LET bs == Append(bullets_call.bullets, t)
          IN bullets_call' = [bullets_call EXCEPT
                 !.bullets = bs,
                 !.max_bullets = _calculate_safe_bullets_for_shape(
                                     bullets_call.shape, bullets_call.font_info, bs)]
    /\ UNCHANGED <<font_call, placement_call, fill_call, doc, plan_call,
                 limit_call, guided>>

NextBullets == AppendBullet

SpecBullets == InitBullets /\ [][NextBullets]_vars

CapacityHeight(c) ==
    AccumulatedHeight(c.bullets, c.max_bullets,
                      LineHeightEmu(CapacityFontSize(c.font_info)))

\* C6 as stated (on the non-empty lists): for every placeholder height the
\* capacity k is at most the number of bullets and the estimated height of the first k bullets is at
\* most the placeholder height less the margin.
CapacityWithinHeight ==
    (bullets_call.pc = "capacity" /\ Len(bullets_call.bullets) >= 1) =>
        /\ bullets_call.max_bullets <= Len(bullets_call.bullets)
        /\ CapacityHeight(bullets_call) <= AvailableHeightEmu(bullets_call.shape)

\* C6 amended: the capacity k is at most the number of bullets; for a
\* placeholder at least as high as the margin the estimated height of the
\* first k bullets is at most the height less the margin; a placeholder lower
\* than the margin has capacity 0.
CapacityWithinHeightAboveMargin ==
    bullets_call.pc = "capacity" =>
        /\ bullets_call.max_bullets <= Len(bullets_call.bullets)
        /\ bullets_call.max_bullets >= 0
        /\ bullets_call.shape.height >= MarginUnits =>
               CapacityHeight(bullets_call) <= AvailableHeightEmu(bullets_call.shape)
        /\ bullets_call.shape.height < MarginUnits => bullets_call.max_bullets = 0

\* C6 witness: a list longer than its capacity, in a placeholder higher than
\* the margin that holds at least one bullet.
CapacityCutsList ==
    /\ bullets_call.pc = "capacity"
    /\ bullets_call.shape.height >= MarginUnits
    /\ bullets_call.max_bullets >= 1
    /\ bullets_call.max_bullets < Len(bullets_call.bullets)

(***************************************************************************)
(* Free image placement: _calculate_conservative_image_placement and       *)
(* _areas_overlap.  Lengths here are in EMU.                               *)
(***************************************************************************)
\* No placement (None).
NoPlacement == [none |-> TRUE]

\* Inches(0.3), Inches(2.5) and Inches(2), in EMU.
BufferEmu == 274320
MaxImageWidthEmu == 2286000
MaxImageHeightEmu == 1828800

\* A position or a text area as the four sides _areas_overlap reads.
Sides(area) ==
    IF "right" \in DOMAIN area
    THEN [left |-> area.left, top |-> area.top,
          right |-> area.right, bottom |-> area.bottom]
    ELSE [left |-> area.left, top |-> area.top,
          right |-> area.left + area.width, bottom |-> area.top + area.height]

\* The overlap test with strict comparisons: rectangles sharing an edge are
\* then reported as overlapping.
AreasOverlapStrict(area1, area2) ==
    LET a1 == Sides(area1)
        a2 == Sides(area2)
    IN ~ (a1.right < a2.left \/ a1.left > a2.right
            \/ a1.bottom < a2.top \/ a1.top > a2.bottom)

\* The overlap test that only looks whether the first rectangle lies to
\* the left of or above the second.
AreasOverlapOneSided(area1, area2) ==
    LET a1 == Sides(area1)
        a2 == Sides(area2)
    IN ~ (a1.right <= a2.left \/ a1.bottom <= a2.top)

_areas_overlap(area1, area2) ==
    LET a1 == Sides(area1)
        a2 == Sides(area2)
    IN ~ (a1.right <= a2.left \/ a1.left >= a2.right
            \/ a1.bottom <= a2.top \/ a1.top >= a2.bottom)

\* The text areas to avoid: every shape with a text frame, and every
\* placeholder, enlarged by the buffer on its four sides.
TextAreas(shapes) ==
    { [left |-> shapes[i].left - BufferEmu,
       top |-> shapes[i].top - BufferEmu,
       right |-> shapes[i].left + shapes[i].width + BufferEmu,
       bottom |-> shapes[i].top + shapes[i].height + BufferEmu] :
        i \in { j \in 1 .. Len(shapes) :
                  shapes[j].has_text_frame \/ shapes[j].is_placeholder } }

\* int(a - b * 0.02), for the non-negative values it is applied to.
LessTwoPercent(a, b) == (50 * a - b) \div 50

\* The three corners, in the order they are tried: top right, bottom right,
\* bottom left.
CornerPositions(slide_width, slide_height, image_data) ==
    LET wide == image_data.height > 0 /\ image_data.width > image_data.height
        max_width ==
            IF wide THEN Min(slide_width \div 4, MaxImageWidthEmu)
            ELSE IF image_data.height > 0
                 THEN (Min(slide_height \div 4, MaxImageHeightEmu) * image_data.width)
                          \div image_data.height
                 ELSE Min(slide_height \div 4, MaxImageHeightEmu)
        max_height ==
            IF wide THEN (max_width * image_data.height) \div image_data.width
            ELSE Min(slide_height \div 4, MaxImageHeightEmu)
    IN << [left |-> LessTwoPercent(slide_width - max_width, slide_width),
           top |-> slide_height \div 50,
           width |-> max_width, height |-> max_height],
          [left |-> LessTwoPercent(slide_width - max_width, slide_width),
           top |-> LessTwoPercent(slide_height - max_height, slide_height),
           width |-> max_width, height |-> max_height],
          [left |-> slide_width \div 50,
           top |-> LessTwoPercent(slide_height - max_height, slide_height),
           width |-> max_width, height |-> max_height] >>

\* The loop over the corners, from corner i on.
RECURSIVE FirstCornerWithoutConflict(_, _, _)
FirstCornerWithoutConflict(corner_positions, text_areas, i) ==
    IF i > Len(corner_positions) THEN NoPlacement
    ELSE IF \E text_area \in text_areas : _areas_overlap(corner_positions[i], text_area)
         THEN FirstCornerWithoutConflict(corner_positions, text_areas, i + 1)
         ELSE corner_positions[i]

_calculate_conservative_image_placement(slide, image_data) ==
    FirstCornerWithoutConflict(
        CornerPositions(slide.slide_width, slide.slide_height, image_data),
        TextAreas(slide.shapes), 1)

(***************************************************************************)
(* SpecPlace: a slide that gets one shape after the other, the placement   *)
(* of a free image computed after each.                                    *)
(***************************************************************************)
MaxSlideShapes == 2

SlideSizes == { [slide_width |-> 9144000, slide_height |-> 6858000],
                [slide_width |-> 12192000, slide_height |-> 6858000] }

\* Image sizes: only their ratio is read.
ImageSizes == { [width |-> 4, height |-> 3], [width |-> 1, height |-> 1],
                [width |-> 1, height |-> 2], [width |-> 3, height |-> 0] }

\* Rectangles of the shapes of a slide: a title band, a left column, a full
\* body, a short title, a footer, and a band whose buffered right side is the
\* left side of the right-hand corners on a 10 inch slide.
ShapeRects ==
    { [left |-> 457200, top |-> 274638, width |-> 8229600, height |-> 1143000],
      [left |-> 457200, top |-> 1600200, width |-> 4038600, height |-> 3600000],
      [left |-> 457200, top |-> 1600200, width |-> 8229600, height |-> 4525963],
      [left |-> 457200, top |-> 274638, width |-> 4000000, height |-> 1143000],
      [left |-> 3124200, top |-> 6356350, width |-> 2895600, height |-> 365125],
      [left |-> 457200, top |-> 274638, width |-> 5943600, height |-> 1143000] }

\* A placeholder carries a text frame; a picture added to the slide carries
\* none and is no placeholder.
SlideShapes ==
    { [left |-> r.left, top |-> r.top, width |-> r.width, height |-> r.height,
       has_text_frame |-> t, is_placeholder |-> t] :
        r \in ShapeRects, t \in BOOLEAN }

InitPlace ==
    /\ \E z \in SlideSizes, im \in ImageSizes :
          LET slide == [slide_width |-> z.slide_width,
                        slide_height |-> z.slide_height, shapes |-> <<>>]
          IN placement_call =
                 [pc |-> "place", slide |-> slide, image_data |-> im,
                  placement |-> _calculate_conservative_image_placement(slide, im)]
    /\ font_call = Idle
    /\ bullets_call = Idle
    /\ fill_call = Idle
    /\ doc = Idle
    /\ plan_call = Idle
    /\ limit_call = Idle
    /\ guided = Idle

AddShape ==
    /\ placement_call.pc = "place"
    /\ Len(placement_call.slide.shapes) < MaxSlideShapes
    /\ \E sh \in SlideShapes :
          LET slide == [placement_call.slide EXCEPT !.shapes = Append(@, sh)]
          IN placement_call' = [placement_call EXCEPT
                 !.slide = slide,
                 !.placement = _calculate_conservative_image_placement(
                                   slide, placement_call.image_data)]
    /\ UNCHANGED <<font_call, bullets_call, fill_call, doc, plan_call,
                 limit_call, guided>>

NextPlace == AddShape

SpecPlace == InitPlace /\ [][NextPlace]_vars

\* Two rectangles have a point in common that is interior to both.
Intersect(a, b) ==
    /\ Max(a.left, b.left) < Min(a.right, b.right)
    /\ Max(a.top, b.top) < Min(a.bottom, b.bottom)

\* The rectangle of a text-bearing shape enlarged by the buffer margin.
Buffered(sh) ==
    [left |-> sh.left - BufferEmu, top |-> sh.top - BufferEmu,
     right |-> sh.left + sh.width + BufferEmu,
     bottom |-> sh.top + sh.height + BufferEmu]

\* Corner c of the call is free: it meets no buffered text-bearing shape.
CornerFree(c, call) ==
    \A i \in 1 .. Len(call.slide.shapes) :
        call.slide.shapes[i].has_text_frame =>
            ~ Intersect(Sides(c), Buffered(call.slide.shapes[i]))

\* C7: the placement returned is the first of the corners top right, bottom
\* right, bottom left that meets no text-bearing shape enlarged by the buffer,
\* and none is returned when all three do; so a returned rectangle never
\* overlaps a buffered text shape of the slide.
PlacementIsFirstFreeCorner ==
    placement_call.pc = "place" =>
        LET corners == CornerPositions(placement_call.slide.slide_width,
                                       placement_call.slide.slide_height,
                                       placement_call.image_data)
            free == { i \in 1 .. 3 : CornerFree(corners[i], placement_call) }
        IN /\ free = {} => placement_call.placement = NoPlacement
           /\ free # {} =>
                 /\ placement_call.placement # NoPlacement
                 /\ placement_call.placement =
                        corners[CHOOSE i \in free : \A j \in free : i <= j]
                 /\ CornerFree(placement_call.placement, placement_call)

\* C7 witness: the top right corner is taken by a text shape and the image is
\* placed in a later corner, beside a shape that touches it or not.
PlacedInLaterCorner ==
    /\ placement_call.pc = "place"
    /\ Len(placement_call.slide.shapes) >= 1
    /\ placement_call.placement # NoPlacement
    /\ placement_call.placement #
           CornerPositions(placement_call.slide.slide_width,
                           placement_call.slide.slide_height,
                           placement_call.image_data)[1]

(***************************************************************************)
(* Slides, layouts and slide definitions                                   *)
(***************************************************************************)
\* Placeholder type codes the code tests for.
TitleType == 1
BodyType == 2
SubtitleType == 3
ContentType == 8
ImageTypes == {18, 19, 20, 7}
FooterTypes == {13, 14, 15, 16}

\* The empty string.
NoText == [id |-> "", len |-> 0]

\* The fixed sentences the code writes.
KeyInsights == [id |-> "Key insights and developments", len |-> 29]
OverviewPoints == [id |-> "Overview and key points", len |-> 23]
FinancialInsights == [id |-> "Key financial insights", len |-> 22]
LeadershipTeam == [id |-> "Leadership team", len |-> 15]
ProductOverview == [id |-> "Product overview", len |-> 16]
SupportingInformation == [id |-> "Supporting information", len |-> 22]

\* bullets[i] for the index i the code counts from 0.
Bullet(bullets, i) == bullets[i + 1]
BulletIndexes(bullets) == 0 .. (Len(bullets) - 1)

\* bullets.index(text): the first index that holds an equal text.
IndexOf(bullets, text) ==
    CHOOSE i \in BulletIndexes(bullets) :
        /\ Bullet(bullets, i) = text
        /\ \A j \in BulletIndexes(bullets) : Bullet(bullets, j) = text => i <= j

\* The indexes not in bullets_used, in list order; the first of them.
UnusedBullets(bullets, content_usage_tracker) ==
    { i \in BulletIndexes(bullets) : i \notin content_usage_tracker.bullets_used }
FirstOf(S) == CHOOSE i \in S : \A j \in S : i <= j

\* len("\n".join([f"• {bullet}" for bullet in bullets[i..]]))
RECURSIVE JoinedLength(_, _)
JoinedLength(bullets, i) ==
    IF i > Len(bullets) THEN 0
    ELSE bullets[i].len + 2 + (IF i < Len(bullets) THEN 1 ELSE 0)
             + JoinedLength(bullets, i + 1)

(***************************************************************************)
(* _calculate_safe_font_size: the font of the bullets of a body            *)
(***************************************************************************)
\* int(base_size * k / 10) for the multipliers 0.6 to 0.9 (base sizes up to
\* 100: the double product falls below the exact one for 90 * 0.7 only).
ScaledSize(base_size, k) ==
    ((base_size * k) \div 10) - (IF base_size = 90 /\ k = 7 THEN 1 ELSE 0)

\* The base size is returned as it is.
SafeFontSizeUnreduced(font_info, bullet_count, shape) ==
    IF font_info = NoFont THEN DefaultBodySize ELSE font_info

_calculate_safe_font_size(font_info, bullet_count, shape) ==
    LET base_size == IF font_info = NoFont THEN DefaultBodySize ELSE font_info
    IN IF bullet_count > 5 \/ AreaBelow(shape, 20)
       THEN Max(ScaledSize(base_size, 6), 10)
       ELSE IF bullet_count > 3 \/ AreaBelow(shape, 30)
       THEN Max(ScaledSize(base_size, 7), 12)
       ELSE IF bullet_count > 2
       THEN Max(ScaledSize(base_size, 8), 14)
       ELSE Max(ScaledSize(base_size, 9), 16)

(***************************************************************************)
(* _limit_content_for_placeholder: the length it leaves of a text          *)
(***************************************************************************)
\* The budget with each tier reaching up to its boundary area.
MaxCharsInclusive(shape) ==
    IF ~ AreaBelow(shape, 5) /\ shape.width * shape.height # 5 * SqInch
    THEN (IF ~ AreaBelow(shape, 10) /\ shape.width * shape.height # 10 * SqInch
          THEN (IF ~ AreaBelow(shape, 20) /\ shape.width * shape.height # 20 * SqInch
                THEN 400 ELSE 200)
          ELSE 100)
    ELSE 50

MaxChars(shape) ==
    IF AreaBelow(shape, 5) THEN 50
    ELSE IF AreaBelow(shape, 10) THEN 100
    ELSE IF AreaBelow(shape, 20) THEN 200
    ELSE 400

\* The length of "...".
EllipsisLen == 3

\* content[:max_chars-3] + "..." when the content is longer than max_chars;
\* the text so made carries the field ellipsis, for the marker it ends with.
_limit_content_for_placeholder(content, shape) ==
    IF content.len > MaxChars(shape)
    THEN [id |-> content.id, len |-> (MaxChars(shape) - EllipsisLen) + EllipsisLen,
          ellipsis |-> TRUE]
    ELSE content

(***************************************************************************)
(* SpecLimit: one text that grows by a character at a time, cut to the     *)
(* budget of a fixed placeholder after each character.                     *)
(***************************************************************************)
MaxContentLen == 401

\* Placeholder rectangles of just under 5, of 5, 10 and 20 square inches,
\* of just under 10 and 20, and of more than 20 square inches.
LimitShapes ==
    { [width |-> 249, height |-> 200], [width |-> 250, height |-> 200],
      [width |-> 250, height |-> 399], [width |-> 250, height |-> 400],
      [width |-> 500, height |-> 399], [width |-> 500, height |-> 400],
      [width |-> 900, height |-> 450] }

Content(n) == [id |-> "content", len |-> n]

InitLimit ==
    /\ \E s \in LimitShapes :
          limit_call = [pc |-> "limited", shape |-> s, content |-> Content(0),
                        result |-> _limit_content_for_placeholder(Content(0), s)]
    /\ font_call = Idle
    /\ bullets_call = Idle
    /\ placement_call = Idle
    /\ fill_call = Idle
    /\ doc = Idle
    /\ plan_call = Idle
    /\ guided = Idle

\* The content gets one character longer and is limited again.
GrowContent ==
    /\ limit_call.pc = "limited"
    /\ limit_call.content.len < MaxContentLen
    /\ LET content == Content(limit_call.content.len + 1)
       IN limit_call' = [limit_call EXCEPT
              !.content = content,
              !.result = _limit_content_for_placeholder(content, limit_call.shape)]
    /\ UNCHANGED <<font_call, bullets_call, placement_call, fill_call, doc, plan_call,
                 guided>>

NextLimit == GrowContent

SpecLimit == InitLimit /\ [][NextLimit]_vars

(***************************************************************************)
(* Content generators of _fill_all_placeholders.  Each returns the text,   *)
(* the bullet indexes whose text it holds, and the tracker as it leaves it.*)
(***************************************************************************)
_generate_subtitle_content(slide_def, layout_hint, content_usage_tracker) ==
    LET bullets == slide_def.bullets
    IN IF "title" \in layout_hint /\ bullets # <<>>
              /\ ~ content_usage_tracker.main_content_filled
       THEN [text |-> Bullet(bullets, 0), bullet_idxs |-> {0},
             tracker |-> [content_usage_tracker EXCEPT !.bullets_used = @ \cup {0}]]
       ELSE IF "section" \in layout_hint
       THEN [text |-> KeyInsights, bullet_idxs |-> {},
             tracker |-> content_usage_tracker]
       ELSE IF bullets # <<>> /\ ~ content_usage_tracker.main_content_filled
       THEN [text |-> OverviewPoints, bullet_idxs |-> {},
             tracker |-> content_usage_tracker]
       ELSE [text |-> NoText, bullet_idxs |-> {}, tracker |-> content_usage_tracker]

\* Nothing is left for a Content placeholder.
RemainingContentNone(slide_def, content_usage_tracker) ==
    [text |-> NoText, bullet_idxs |-> {}, tracker |-> content_usage_tracker]

_get_remaining_content(slide_def, content_usage_tracker) ==
    LET bullets == slide_def.bullets
        unused == UnusedBullets(bullets, content_usage_tracker)
        \* unused_bullets[:3]
        first3 == { i \in unused : Cardinality({ j \in unused : j < i }) < 3 }
        kept == [k \in 1 .. Cardinality(first3) |->
                    Bullet(bullets, CHOOSE i \in first3 :
                                       Cardinality({ j \in first3 : j < i }) = k - 1)]
    IN IF ~ content_usage_tracker.main_content_filled
       THEN [text |-> [id |-> "bullets", len |-> JoinedLength(bullets, 1)],
             bullet_idxs |-> BulletIndexes(bullets),
             tracker |-> content_usage_tracker]
       ELSE IF unused # {}
       THEN [text |-> [id |-> "bullets", len |-> JoinedLength(kept, 1)],
             bullet_idxs |-> first3, tracker |-> content_usage_tracker]
       ELSE [text |-> NoText, bullet_idxs |-> {}, tracker |-> content_usage_tracker]

\* Only the first placeholder to ask is given a bullet: none is given once a
\* bullet is marked as used.
SpecificContentOncePerSlide(slide_def, placeholder_type, layout_hint, content_usage_tracker) ==
    IF placeholder_type \notin FooterTypes
          /\ placeholder_type \notin {TitleType, BodyType, SubtitleType, ContentType}
          /\ slide_def.bullets # <<>> /\ content_usage_tracker.bullets_used = {}
    THEN [text |-> Bullet(slide_def.bullets, 0), bullet_idxs |-> {0},
          tracker |-> [content_usage_tracker EXCEPT !.bullets_used = {0}]]
    ELSE [text |-> IF placeholder_type \in FooterTypes THEN SupportingInformation
                   ELSE NoText,
          bullet_idxs |-> {}, tracker |-> content_usage_tracker]

_generate_specific_placeholder_content(slide_def, placeholder_type, layout_hint, content_usage_tracker) ==
    LET bullets == slide_def.bullets
        unused == UnusedBullets(bullets, content_usage_tracker)
    IN IF placeholder_type \in FooterTypes
       THEN [text |-> IF "financial" \in layout_hint THEN FinancialInsights
                      ELSE IF "team" \in layout_hint THEN LeadershipTeam
                      ELSE IF "product" \in layout_hint THEN ProductOverview
                      ELSE SupportingInformation,
             bullet_idxs |-> {}, tracker |-> content_usage_tracker]
       ELSE IF unused # {}
                 /\ placeholder_type \notin {TitleType, BodyType, SubtitleType, ContentType}
       THEN [text |-> Bullet(bullets, FirstOf(unused)),
             bullet_idxs |-> {FirstOf(unused)},
             tracker |-> [content_usage_tracker EXCEPT
                            !.bullets_used =
                                @ \cup {IndexOf(bullets, Bullet(bullets, FirstOf(unused)))}]]
       ELSE [text |-> NoText, bullet_idxs |-> {}, tracker |-> content_usage_tracker]

\* Every layout hint is taken to ask for images.
ShouldUseImagesAlways(layout_hint) == TRUE

_should_use_images_for_layout(layout_hint) ==
    \E keyword \in {"image", "picture", "visual", "photo", "media", "graphic"} :
        keyword \in layout_hint

(***************************************************************************)
(* _fill_all_placeholders.  A slide is the sequence of its placeholders,   *)
(* each [type, idx, shape]; a placeholder of a slide always carries a text *)
(* frame.  layout_info holds the font sizes of the layout's first title    *)
(* and first body placeholder; image_pool is held by its length.  The      *)
(* handler's state is its ledger and, in writes, every fill it made.       *)
(***************************************************************************)
\* The ledger as a slide with a title, a body of one bullet and an image
\* leaves it.
StaleFill ==
    [filled_placeholders |-> {0},
     used_image_placeholder |-> TRUE,
     content_usage_tracker |->
         [title_used |-> TRUE, bullets_used |-> {0}, main_content_filled |-> TRUE],
     writes |-> <<>>]

NewFill ==
    [filled_placeholders |-> {},
     used_image_placeholder |-> FALSE,
     content_usage_tracker |->
         [title_used |-> FALSE, bullets_used |-> {}, main_content_filled |-> FALSE],
     writes |-> <<>>]

\* _fill_text_placeholder_safely: the text with the font fitted to it.
TextWrite(pos, ph, kind, text, bullet_idxs, layout_info, is_title, limited) ==
    [pos |-> pos, idx |-> ph.idx, type |-> ph.type, kind |-> kind,
     text |-> text, bullet_idxs |-> bullet_idxs, count |-> 0,
     size |-> _calculate_ultra_safe_font(
                  IF is_title THEN layout_info.title_font ELSE layout_info.body_font,
                  text.len, ph.shape, is_title),
     limited |-> limited, image_idx |-> -1]

\* _fill_body_placeholder_with_expansion: the first max_bullets bullets, each
\* with the font fitted to their number.
BodyWrite(pos, ph, bullets, layout_info) ==
    LET max_bullets ==
            _calculate_safe_bullets_for_shape(ph.shape, layout_info.body_font, bullets)
    IN [pos |-> pos, idx |-> ph.idx, type |-> ph.type, kind |-> "body",
        text |-> NoText, bullet_idxs |-> 0 .. (max_bullets - 1),
        count |-> max_bullets,
        size |-> _calculate_safe_font_size(layout_info.body_font, max_bullets, ph.shape),
        limited |-> FALSE, image_idx |-> -1]

\* _fill_image_placeholder_safely: the pool entry put in the placeholder's place.
ImageWrite(pos, ph, image_pool, usage_count) ==
    [pos |-> pos, idx |-> ph.idx, type |-> ph.type, kind |-> "image",
     text |-> NoText, bullet_idxs |-> {}, count |-> 0, size |-> 0,
     limited |-> FALSE, image_idx |-> usage_count % image_pool]

\* The test each branch makes before it fills: the index is not yet filled.
NotYetFilled(ph, filled_placeholders) == ph.idx \notin filled_placeholders

\* One turn of the first loop, for the placeholder at position pos.
TextPassStep(st, ph, pos, slide_def, layout_info) ==
    LET tracker == st.content_usage_tracker
        open == NotYetFilled(ph, st.filled_placeholders)
        hint == slide_def.layout_hint
        Filled(write, new_tracker) ==
            [st EXCEPT !.writes = Append(@, write),
                       !.filled_placeholders = @ \cup {ph.idx},
                       !.content_usage_tracker = new_tracker]
    IN IF ph.type \in ImageTypes THEN st
       ELSE IF ph.type = TitleType /\ open
       THEN IF slide_def.title # NoText /\ ~ tracker.title_used
            THEN Filled(TextWrite(pos, ph, "title", slide_def.title, {},
                                  layout_info, TRUE, FALSE),
                        [tracker EXCEPT !.title_used = TRUE])
            ELSE st
       ELSE IF ph.type = BodyType /\ open
       THEN IF slide_def.bullets # <<>> /\ ~ tracker.main_content_filled
            THEN Filled(BodyWrite(pos, ph, slide_def.bullets, layout_info),
                        [tracker EXCEPT
                           !.main_content_filled = TRUE,
                           !.bullets_used = @ \cup BulletIndexes(slide_def.bullets)])
            ELSE st
       ELSE IF ph.type = SubtitleType /\ open
       THEN LET g == _generate_subtitle_content(slide_def, hint, tracker)
            IN IF g.text # NoText
               THEN Filled(TextWrite(pos, ph, "subtitle", g.text, g.bullet_idxs,
                                     layout_info, FALSE, FALSE), g.tracker)
               ELSE st
       ELSE IF ph.type = ContentType /\ open
       THEN LET g == _get_remaining_content(slide_def, tracker)
            IN IF g.text # NoText
               THEN Filled(TextWrite(pos, ph, "content",
                                     _limit_content_for_placeholder(g.text, ph.shape),
                                     g.bullet_idxs, layout_info, FALSE, TRUE), g.tracker)
               ELSE st
       ELSE IF open
       THEN LET g == _generate_specific_placeholder_content(slide_def, ph.type, hint,
                                                            tracker)
            IN IF g.text # NoText
               THEN Filled(TextWrite(pos, ph, "specific",
                                     _limit_content_for_placeholder(g.text, ph.shape),
                                     g.bullet_idxs, layout_info, FALSE, TRUE), g.tracker)
               ELSE st
       ELSE st

\* The first loop, from position i on.
RECURSIVE TextPass(_, _, _, _, _)
TextPass(st, shapes, i, slide_def, layout_info) ==
    IF i > Len(shapes) THEN st
    ELSE TextPass(TextPassStep(st, shapes[i], i, slide_def, layout_info),
                  shapes, i + 1, slide_def, layout_info)

\* The second loop fills every placeholder, whatever its type and whether or
\* not its index is filled.
ImagePlaceholderOpenAlways(ph, filled_placeholders) == TRUE

\* The test of the second loop: an image placeholder whose index is not filled.
ImagePlaceholderOpen(ph, filled_placeholders) ==
    ph.type \in ImageTypes /\ ph.idx \notin filled_placeholders

\* One turn of the second loop.
ImagePassStep(st, ph, pos, image_pool) ==
    IF ImagePlaceholderOpen(ph, st.filled_placeholders)
    THEN [st EXCEPT
            !.writes = Append(@, ImageWrite(pos, ph, image_pool,
                                            Cardinality(st.filled_placeholders))),
            !.filled_placeholders = @ \cup {ph.idx},
            !.used_image_placeholder = TRUE]
    ELSE st

\* The second loop, from position i on.
RECURSIVE ImagePass(_, _, _, _)
ImagePass(st, shapes, i, image_pool) ==
    IF i > Len(shapes) THEN st
    ELSE ImagePass(ImagePassStep(st, shapes[i], i, image_pool),
                   shapes, i + 1, image_pool)

_fill_all_placeholders(shapes, slide_def, layout_info, image_pool) ==
    LET text_done == TextPass(NewFill, shapes, 1, slide_def, layout_info)
    IN IF image_pool > 0 /\ _should_use_images_for_layout(slide_def.layout_hint)
       THEN ImagePass(text_done, shapes, 1, image_pool)
       ELSE text_done

(***************************************************************************)
(* Inputs of the fill                                                      *)
(***************************************************************************)
MaxShapes == 2
MaxBullets == 2
MaxPool == 2

\* One type of each kind the first loop tells apart: title, body, subtitle,
\* content, footer, another text placeholder, picture.
PlaceholderTypes == {1, 2, 3, 8, 14, 4, 18}

\* The rectangles of body placeholders: lower than the margin, one line of
\* 18 point high, 2.5 inches and 4.5 inches high.
BodyShapes ==
    { [width |-> 800, height |-> 30], [width |-> 800, height |-> 100],
      [width |-> 900, height |-> 250], [width |-> 900, height |-> 450] }

\* The rectangle of a placeholder of another type.
StandardShape(type) ==
    IF type = TitleType THEN [width |-> 900, height |-> 125]
    ELSE IF type = SubtitleType THEN [width |-> 640, height |-> 175]
    ELSE IF type \in FooterTypes THEN [width |-> 290, height |-> 37]
    ELSE IF type \in ImageTypes THEN [width |-> 550, height |-> 410]
    ELSE [width |-> 400, height |-> 450]

\* A placeholder of a type, the body ones with the given rectangle.
Placeholder(type, idx, body_shape) ==
    [type |-> type, idx |-> idx,
     shape |-> IF type = BodyType THEN body_shape ELSE StandardShape(type)]

\* The sequences over S of length at most n.
SeqsUpTo(S, n) == UNION { [1 .. k -> S] : k \in 0 .. n }

\* Slides of at most n placeholders, numbered in order, the body ones of one
\* rectangle.
Slides(n) ==
    { [i \in 1 .. Len(types) |-> Placeholder(types[i], i - 1, body_shape)] :
        types \in SeqsUpTo(PlaceholderTypes, n), body_shape \in BodyShapes }

LayoutInfos == { [title_font |-> NoFont, body_font |-> NoFont],
                 [title_font |-> 44, body_font |-> 32] }

Intro == [id |-> "Intro", len |-> 5]
BulletTexts == {Short, Long220}
LayoutHints == { {}, {"title"}, {"section"}, {"image"} }

SlideDefs(n) ==
    { [title |-> t, bullets |-> b, layout_hint |-> h] :
        t \in {NoText, Intro}, b \in SeqsUpTo(BulletTexts, n), h \in LayoutHints }

(***************************************************************************)
(* SpecFill: one slide of any layout, filled once from any slide           *)
(* definition.                                                             *)
(***************************************************************************)
InitFill ==
    /\ \E shapes \in Slides(MaxShapes), li \in LayoutInfos, pool \in 0 .. MaxPool :
          fill_call = [pc |-> "created", shapes |-> shapes, layout_info |-> li,
                       image_pool |-> pool,
                       slide_def |-> [title |-> NoText, bullets |-> <<>>,
                                      layout_hint |-> {}],
                       result |-> NewFill]
    /\ font_call = Idle
    /\ bullets_call = Idle
    /\ placement_call = Idle
    /\ doc = Idle
    /\ plan_call = Idle
    /\ limit_call = Idle
    /\ guided = Idle

FillAllPlaceholders ==
    /\ fill_call.pc = "created"
    /\ \E slide_def \in SlideDefs(MaxBullets) :
          fill_call' = [fill_call EXCEPT
              !.pc = "filled",
              !.slide_def = slide_def,
              !.result = _fill_all_placeholders(fill_call.shapes, slide_def,
                                                fill_call.layout_info,
                                                fill_call.image_pool)]
    /\ UNCHANGED <<font_call, bullets_call, placement_call, doc, plan_call,
                 limit_call, guided>>

NextFill == FillAllPlaceholders

SpecFill == InitFill /\ [][NextFill]_vars

Writes == fill_call.result.writes

\* C1 as stated: no bullet index has its text written into two different
\* placeholders of the slide.
NoBulletWrittenTwice ==
    fill_call.pc = "filled" =>
        \A i, j \in 1 .. Len(Writes) :
            i # j => Writes[i].bullet_idxs \cap Writes[j].bullet_idxs = {}

\* C2: every placeholder index is filled at most once over the two passes:
\* no index appears in two fills, and a fill of the image pass is never of an
\* index the text pass filled.
NoPlaceholderFilledTwice ==
    fill_call.pc = "filled" =>
        /\ \A i, j \in 1 .. Len(Writes) : i # j => Writes[i].idx # Writes[j].idx
        /\ { Writes[i].idx : i \in 1 .. Len(Writes) } = fill_call.result.filled_placeholders

\* C2 witness: a slide on which the text pass filled one placeholder and the
\* image pass another.
TextAndImageFilled ==
    /\ fill_call.pc = "filled"
    /\ \E i, j \in 1 .. Len(Writes) :
          Writes[i].kind = "title" /\ Writes[j].kind = "image"

\* The fills of Body placeholders, the base size of their font, and the
\* height left for their lines, in EMU.
BodyWrites == { i \in 1 .. Len(Writes) : Writes[i].kind = "body" }

BodyBaseSize ==
    IF fill_call.layout_info.body_font = NoFont THEN 18
    ELSE fill_call.layout_info.body_font

BodyRoom(i) == fill_call.shapes[Writes[i].pos].shape.height * EmuPerUnit - 365760

BodyArea(i) ==
    fill_call.shapes[Writes[i].pos].shape.width
        * fill_call.shapes[Writes[i].pos].shape.height

SingleLongBulletAlwaysWritten ==
    (/\ fill_call.pc = "filled"
     /\ fill_call.slide_def.bullets = <<Long220>>
     /\ fill_call.slide_def.layout_hint = {})
        => \A i \in BodyWrites : Writes[i].count = 1

\* C10, amended: the 220-character bullet, taken for 6 lines of 1.5 times the
\* base size, is written into the body when the 6 lines fit in the height of
\* the body less 0.4 inch; when they do not, the body is marked used and
\* holds no bullet.
SingleLongBulletWrittenWhenItFits ==
    (/\ fill_call.pc = "filled"
     /\ fill_call.slide_def.bullets = <<Long220>>
     /\ fill_call.slide_def.layout_hint = {})
        => \A i \in BodyWrites :
              /\ Writes[i].idx \in fill_call.result.filled_placeholders
              /\ fill_call.result.content_usage_tracker.main_content_filled
              /\ Writes[i].count =
                    IF 6 * BodyBaseSize * 19050 <= BodyRoom(i) THEN 1 ELSE 0

\* C10 witness: a body 2.5 inches high, marked used, without the bullet.
LongBulletLeftOut ==
    /\ fill_call.pc = "filled"
    /\ fill_call.slide_def.bullets = <<Long220>>
    /\ fill_call.slide_def.layout_hint = {}
    /\ \E i \in BodyWrites :
          /\ Writes[i].count = 0
          /\ fill_call.shapes[Writes[i].pos].shape.height = 250
          /\ fill_call.result.content_usage_tracker.main_content_filled

(***************************************************************************)
(* Layout selection: _pick_layout.  layouts is prs.slide_layouts, each     *)
(* layout [name, shapes, info]; the result is the index, from 0, of the    *)
(* layout returned.                                                        *)
(***************************************************************************)
_layout_has_image_placeholder(layout) ==
    \E i \in 1 .. Len(layout.shapes) : layout.shapes[i].type \in ImageTypes

\* The fallback returns the first layout.
PickFallbackFirst(layouts) == 0

\* The fallback of _pick_layout: the first of the layouts 1 to 3 with an
\* image placeholder, else layout 1, else layout 0.
PickFallback(layouts) ==
    LET preferred == { i \in 1 .. (Min(Len(layouts), 4) - 1) :
                         _layout_has_image_placeholder(layouts[i + 1]) }
    IN IF preferred # {} THEN FirstOf(preferred)
       ELSE IF Len(layouts) > 1 THEN 1 ELSE 0

\* The layout is the first with a Body placeholder, else layout 0.
PickLayoutFirstBody(layouts, hint) ==
    LET with_body == { i \in 0 .. (Len(layouts) - 1) :
                         \E k \in 1 .. Len(layouts[i + 1].shapes) :
                             layouts[i + 1].shapes[k].type = BodyType }
    IN IF with_body # {} THEN FirstOf(with_body) ELSE 0

_pick_layout(layouts, hint) ==
    LET with_image == { i \in 0 .. (Len(layouts) - 1) :
                          _layout_has_image_placeholder(layouts[i + 1]) }
    IN IF (\E word \in {"image", "picture", "photo", "visual"} : word \in hint)
             /\ with_image # {}
       THEN FirstOf(with_image)
       ELSE IF "section" \in hint /\ Len(layouts) > 2 THEN 2
       ELSE IF "two" \in hint /\ Len(layouts) > 3 THEN 3
       ELSE IF "title" \in hint /\ Len(layouts) > 0 THEN 0
       ELSE PickFallback(layouts)

(***************************************************************************)
(* Spec: build_presentation over a template, a slide plan and an image     *)
(* pool.  The plan is read one entry at a time; image_log keeps, in order, *)
(* the pool entry of every image fill of the document.  Of style_ctx the   *)
(* state keeps what the code reads or writes: the image pool, whether the  *)
(* theme holds the slide dimensions and whether it holds layout_info (the  *)
(* layouts then carry their entry of it).                                  *)
(***************************************************************************)
MaxSlides == 2
MaxPlanBullets == 3

Layout(name, types, body_shape, info) ==
    [name |-> name,
     info |-> [title_font |-> IF \E i \in 1 .. Len(types) : types[i] = TitleType
                              THEN info.title_font ELSE NoFont,
               body_font |-> IF \E i \in 1 .. Len(types) : types[i] = BodyType
                             THEN info.body_font ELSE NoFont],
     shapes |-> [i \in 1 .. Len(types) |-> Placeholder(types[i], i - 1, body_shape)]]

\* The templates: the one of the scenarios, [TitleOnly, TitleBody, Section],
\* with each body rectangle and each pair of layout fonts; one with a
\* picture layout; one of a single layout; one with five layouts.
Templates ==
    { << Layout("TitleOnly", <<1>>, b, li), Layout("TitleBody", <<1, 2>>, b, li),
         Layout("Section", <<1, 3>>, b, li) >> :
        b \in BodyShapes, li \in LayoutInfos }
    \cup
    { << Layout("TitleSlide", <<1, 3>>, b, li), Layout("TitleBody", <<1, 2>>, b, li),
         Layout("PictureCaption", <<1, 18, 2>>, b, li) >> :
        b \in {[width |-> 900, height |-> 450]}, li \in LayoutInfos }
    \cup
    { << Layout("Picture", <<18>>, b, li) >> :
        b \in {[width |-> 900, height |-> 450]}, li \in {[title_font |-> NoFont, body_font |-> NoFont]} }
    \cup
    { << Layout("TitleSlide", <<1, 3>>, b, li), Layout("TitleBody", <<1, 2>>, b, li),
         Layout("Section", <<1, 4>>, b, li), Layout("TwoContent", <<1, 8, 8>>, b, li),
         Layout("TwoPictures", <<18, 18, 14>>, b, li) >> :
        b \in {[width |-> 900, height |-> 250]}, li \in {[title_font |-> NoFont, body_font |-> NoFont]} }

PlanHints == LayoutHints \cup { {"media"}, {"two"} }

\* The bullet lists of a plan entry: short bullets, or one long paragraph.
PlanBullets ==
    { [i \in 1 .. n |-> Short] : n \in 0 .. MaxPlanBullets } \cup { <<Long220>> }

\* An entry whose "bullets" is null, as make_slide_plan lets it through.
NullBulletsDef ==
    [title |-> Intro, bullets |-> <<>>, layout_hint |-> {}, bullets_is_null |-> TRUE]

PlanSlideDefs ==
    { [title |-> t, bullets |-> b, layout_hint |-> h, bullets_is_null |-> FALSE] :
        t \in {NoText, Intro}, b \in PlanBullets, h \in PlanHints }
    \cup { NullBulletsDef }

NoSlide == [layout_idx |-> -1,
            slide_def |-> [title |-> NoText, bullets |-> <<>>, layout_hint |-> {},
                           bullets_is_null |-> FALSE],
            result |-> NewFill]

Init ==
    /\ \E t \in Templates, pool \in 0 .. MaxPool, info \in BOOLEAN, dims \in BOOLEAN :
          doc = [pc |-> "start", layouts |-> t, images |-> pool,
                 theme_has_dimensions |-> dims,
                 theme_updated |-> FALSE,
                 theme_has_layout_info |-> info,
                 image_usage_count |-> 0, slides |-> 0,
                 last |-> NoSlide, image_log |-> <<>>]
    /\ font_call = Idle
    /\ bullets_call = Idle
    /\ placement_call = Idle
    /\ fill_call = Idle
    /\ plan_call = Idle
    /\ limit_call = Idle
    /\ guided = Idle

\* The theme is replaced by the slide dimensions instead of updated.
OpenTemplateReplacingTheme ==
    /\ doc.pc = "start"
    /\ doc' = [doc EXCEPT !.pc = "building", !.theme_has_dimensions = TRUE,
                          !.theme_updated = ~ doc.theme_has_dimensions,
                          !.theme_has_layout_info = @ /\ doc.theme_has_dimensions,
                          !.slides = 0, !.image_usage_count = 0]
    /\ UNCHANGED <<font_call, bullets_call, placement_call, fill_call, plan_call,
                 limit_call, guided>>

\* Lines 13 to 37: the template is opened, the theme is given the slide
\* dimensions it lacks (theme_updated records that style_ctx["theme"] was
\* written), the slides of the template are dropped.
OpenTemplate ==
    /\ doc.pc = "start"
    /\ doc' = [doc EXCEPT !.pc = "building", !.theme_has_dimensions = TRUE,
                          !.theme_updated = ~ doc.theme_has_dimensions,
                          !.slides = 0, !.image_usage_count = 0]
    /\ UNCHANGED <<font_call, bullets_call, placement_call, fill_call, plan_call,
                 limit_call, guided>>

\* The pool entries of the image fills of a slide, in order.
RECURSIVE ImageIndexes(_, _)
ImageIndexes(writes, i) ==
    IF i > Len(writes) THEN <<>>
    ELSE (IF writes[i].kind = "image" THEN <<writes[i].image_idx>> ELSE <<>>)
             \o ImageIndexes(writes, i + 1)

\* One turn of the loop over plan["slides"], for the next entry of the plan.
AddSlide ==
    /\ doc.pc = "building"
    /\ doc.slides < MaxSlides
    /\ \E slide_def \in PlanSlideDefs :
          LET layout_idx == _pick_layout(doc.layouts, slide_def.layout_hint)
              layout == doc.layouts[layout_idx + 1]
              result == _fill_all_placeholders(layout.shapes, slide_def,
                                               layout.info, doc.images)
          IN IF doc.theme_has_layout_info /\ ~ slide_def.bullets_is_null
             THEN doc' = [doc EXCEPT
                    !.slides = @ + 1,
                    !.last = [layout_idx |-> layout_idx, slide_def |-> slide_def,
                              result |-> result],
                    !.image_log = @ \o ImageIndexes(result.writes, 1)]
             \* After the slide was added, style_ctx["theme"]["layout_info"]
             \* raises KeyError, or len(bullets) in _fill_all_placeholders
             \* raises TypeError; nothing catches either.
             ELSE doc' = [doc EXCEPT !.pc = "raised", !.slides = @ + 1]
    /\ UNCHANGED <<font_call, bullets_call, placement_call, fill_call, plan_call,
                 limit_call, guided>>

\* Lines 61 to 65: the plan is exhausted and the document is saved.
Save ==
    /\ doc.pc = "building"
    /\ doc' = [doc EXCEPT !.pc = "saved"]
    /\ UNCHANGED <<font_call, bullets_call, placement_call, fill_call, plan_call,
                 limit_call, guided>>

Next == OpenTemplate \/ AddSlide \/ Save

Spec == Init /\ [][Next]_vars

\* C3 as stated: the i-th image fill of a document, counted from 0 over all
\* its slides, uses pool entry i mod N.
ImagePoolCycles ==
    doc.pc \in {"building", "saved"} =>
        \A i \in 1 .. Len(doc.image_log) : doc.image_log[i] = (i - 1) % doc.images

\* The scenario: the template [TitleOnly, TitleBody, Section] and a slide
\* with the title "Intro", three short bullets and a hint without keyword.
ScenarioSlide ==
    /\ doc.pc \in {"building", "saved"}
    /\ doc.slides >= 1
    /\ [i \in 1 .. Len(doc.layouts) |-> doc.layouts[i].name]
           = <<"TitleOnly", "TitleBody", "Section">>
    /\ doc.last.slide_def =
           [title |-> Intro, bullets |-> <<Short, Short, Short>>, layout_hint |-> {},
            bullets_is_null |-> FALSE]

LastWrites == doc.last.result.writes

TitleGetsIntro ==
    \E i \in 1 .. Len(LastWrites) :
        LastWrites[i].type = TitleType /\ LastWrites[i].text = Intro

\* C8 as stated: layout 1 is chosen, the title placeholder gets "Intro" and
\* the body placeholder gets the three bullets.
ScenarioBodyGetsAllBullets ==
    ScenarioSlide =>
        /\ doc.last.layout_idx = 1
        /\ TitleGetsIntro
        /\ \E i \in 1 .. Len(LastWrites) :
              LastWrites[i].type = BodyType /\ LastWrites[i].bullet_idxs = {0, 1, 2}

\* C8, amended: layout 1 is chosen, the title placeholder gets "Intro" and
\* the body placeholder gets the first bullets in their order, never all
\* three: two when three lines of 1.5 times the base size fit in the height
\* of the body less 0.4 inch, one when one or two lines fit, none otherwise.
ScenarioBodyGetsBulletsUpToCapacity ==
    ScenarioSlide =>
        /\ doc.last.layout_idx = 1
        /\ TitleGetsIntro
        /\ \E i \in 1 .. Len(LastWrites) :
              LET body == doc.layouts[2].shapes[LastWrites[i].pos]
                  font == doc.layouts[2].info.body_font
                  line == (IF font = NoFont THEN 18 ELSE font) * 19050
                  room == body.shape.height * EmuPerUnit - 365760
              IN /\ LastWrites[i].type = BodyType
                 /\ LastWrites[i].count =
                       IF 3 * line <= room THEN 2 ELSE IF line <= room THEN 1 ELSE 0
                 /\ LastWrites[i].bullet_idxs = 0 .. (LastWrites[i].count - 1)

\* C8 witness: the slide of the scenario with two of its bullets in the body.
ScenarioBodyGetsTwoBullets ==
    /\ ScenarioSlide
    /\ \E i \in 1 .. Len(LastWrites) :
          LastWrites[i].type = BodyType /\ LastWrites[i].bullet_idxs = {0, 1}

(***************************************************************************)
(* A slide without Body placeholder that is given bullets                  *)
(***************************************************************************)
NoBodySlide ==
    /\ fill_call.pc = "filled"
    /\ fill_call.slide_def.bullets # <<>>
    /\ \A i \in 1 .. Len(fill_call.shapes) : fill_call.shapes[i].type # BodyType

WritesAt(pos) == { i \in 1 .. Len(Writes) : Writes[i].pos = pos }

TitleWritten ==
    \E i \in 1 .. Len(Writes) :
        Writes[i].type = TitleType /\ Writes[i].text = fill_call.slide_def.title

\* C11 as stated: on a slide without Body placeholder the title placeholder
\* gets the title and no bullet is written into any placeholder.
BulletsDroppedWithoutBody ==
    NoBodySlide =>
        /\ (fill_call.slide_def.title # NoText
              /\ \E i \in 1 .. Len(fill_call.shapes) :
                    fill_call.shapes[i].type = TitleType) => TitleWritten
        /\ \A i \in 1 .. Len(Writes) : Writes[i].bullet_idxs = {}

\* C11, amended: on a slide without Body placeholder the title placeholder
\* gets the title; a Title, footer or image placeholder holds no bullet; a
\* Subtitle holds bullet 0 when the hint has "title" and no bullet otherwise;
\* a Content placeholder holds every bullet; and the first placeholder of
\* another text type holds the first bullet that no Subtitle before it took,
\* the later ones at most one bullet each.
BulletsGoToOtherTextWithoutBody ==
    NoBodySlide =>
        LET shapes == fill_call.shapes
            hint == fill_call.slide_def.layout_hint
            all == 0 .. (Len(fill_call.slide_def.bullets) - 1)
            Other(i) == shapes[i].type \notin
                            ({1, 2, 3, 8} \cup {13, 14, 15, 16} \cup {18, 19, 20, 7})
            Held(i) == UNION { Writes[w].bullet_idxs : w \in WritesAt(i) }
        IN /\ (fill_call.slide_def.title # NoText
                 /\ \E i \in 1 .. Len(shapes) : shapes[i].type = 1) => TitleWritten
           /\ \A i \in 1 .. Len(shapes) :
                 /\ shapes[i].type \in ({1} \cup {13, 14, 15, 16} \cup {18, 19, 20, 7})
                       => Held(i) = {}
                 /\ shapes[i].type = 3
                       => Held(i) = IF "title" \in hint THEN {0} ELSE {}
                 /\ shapes[i].type = 8 => Held(i) = all
                 /\ Other(i) => Cardinality(Held(i)) <= 1
                 /\ (Other(i) /\ \A j \in 1 .. (i - 1) : ~ Other(j))
                       => LET left == IF "title" \in hint
                                         /\ \E j \in 1 .. (i - 1) : shapes[j].type = 3
                                      THEN all \ {0} ELSE all
                          IN Held(i) = { k \in left : \A m \in left : k <= m }

\* C11 witness: a slide of a Title and a Content placeholder whose title is
\* written and whose bullets are all in the Content placeholder.
ContentTakesBulletsWithoutBody ==
    /\ NoBodySlide
    /\ TitleWritten
    /\ fill_call.slide_def.title # NoText
    /\ \E i \in 1 .. Len(Writes) :
          /\ Writes[i].type = ContentType
          /\ Writes[i].bullet_idxs = 0 .. (Len(fill_call.slide_def.bullets) - 1)

(***************************************************************************)
(* build_presentation with a theme that holds no layout_info               *)
(***************************************************************************)
\* C12 as stated: with a style context whose theme holds no layout
\* information and whose image list is empty, build_presentation raises no
\* error.
MinimalContextCompletes ==
    (doc.pc # "idle" /\ ~ doc.theme_has_layout_info /\ doc.images = 0)
        => doc.pc # "raised"

(***************************************************************************)
(* The heuristic planner (backend/pptx_engine/heuristics.py).  A text is   *)
(* held by what the planner reads of it: the tokens MarkdownIt gives for   *)
(* it, its paragraphs as text.split gives them, and whether it is the      *)
(* empty string; both lists are held as the sequence of their runs, each   *)
(* run a short list, read in order.  A heading_open token carries its level; an inline token  *)
(* the number of lines of its content that are not blank (0: the content   *)
(* strips to nothing); every other token is read as paragraph_open is.  A  *)
(* paragraph carries whether it is longer than 200 characters and the      *)
(* number of the pieces of split('. ') that are not blank.  A slide        *)
(* carries its title, its hint and the number of its bullets.              *)
(***************************************************************************)
NewSlide(title) == [title |-> title, layout_hint |-> "bullets", bullets |-> 0]

HasContent(slide) == slide.bullets > 0 \/ slide.title # "Overview"

\* One turn of the loop over the tokens, lines 12 to 28.
TokenStep(st, token) ==
    IF token.type = "heading_open" /\ token.level <= 2
    THEN [slides |-> IF HasContent(st.current_slide)
                     THEN Append(st.slides, st.current_slide) ELSE st.slides,
          current_slide |-> NewSlide("")]
    ELSE IF token.type = "inline" /\ token.lines > 0
    THEN IF st.current_slide.title \in {"", "Overview"}
         THEN [st EXCEPT !.current_slide.title = "text"]
         ELSE [st EXCEPT !.current_slide.bullets = @ + token.lines]
    ELSE st

\* The state of the loop after the first i tokens of a run, from the state st.
RECURSIVE TokenLoop(_, _, _)
TokenLoop(st, tokens, i) ==
    IF i = 0 THEN st
    ELSE TokenStep(TokenLoop(st, tokens, i - 1), tokens[i])

\* The state of the loop after the runs k to the last, from the state st.
\* (The test on next has the state of a turn computed before the next turn
\* is taken; it never fails.)
RECURSIVE TokenRuns(_, _, _)
TokenRuns(st, runs, k) ==
    IF k > Len(runs) THEN st
    ELSE LET next == TokenLoop(st, runs[k], Len(runs[k]))
         IN IF Len(next.slides) >= 0 THEN TokenRuns(next, runs, k + 1) ELSE st

\* The loop over the sentences of a long paragraph, lines 70 to 74: n is the
\* number of bullets of the slide, left the sentences not yet read.
RECURSIVE SentenceLoop(_, _)
SentenceLoop(n, left) ==
    IF left = 0 THEN n
    ELSE IF n + 1 >= 4 THEN n + 1
    ELSE SentenceLoop(n + 1, left - 1)

\* One turn of the loop over the paragraphs, lines 57 to 76.
ParagraphStep(st, paragraph) ==
    LET full == st.current_slide.bullets >= 4
        slides == IF full THEN Append(st.slides, st.current_slide) ELSE st.slides
        slide_count == IF full THEN st.slide_count + 1 ELSE st.slide_count
        current_slide == IF full THEN NewSlide("Key Points") ELSE st.current_slide
    IN [slides |-> slides, slide_count |-> slide_count,
        current_slide |->
            [current_slide EXCEPT !.bullets =
                IF paragraph.long THEN SentenceLoop(@, paragraph.sentences)
                ELSE @ + 1]]

\* The state of the loop after the first i paragraphs of a run, from the
\* state st.
RECURSIVE ParagraphLoop(_, _, _)
ParagraphLoop(st, paragraphs, i) ==
    IF i = 0 THEN st
    ELSE ParagraphStep(ParagraphLoop(st, paragraphs, i - 1), paragraphs[i])

\* The state of the loop after the runs k to the last, from the state st.
RECURSIVE ParagraphRuns(_, _, _)
ParagraphRuns(st, runs, k) ==
    IF k > Len(runs) THEN st
    ELSE LET next == ParagraphLoop(st, runs[k], Len(runs[k]))
         IN IF Len(next.slides) >= 0 THEN ParagraphRuns(next, runs, k + 1) ELSE st

\* The slides of the paragraphs, without the slide of lines 83 to 88.
CreateSlidesNoFallback(text, guidance) ==
    LET st == ParagraphRuns([slides |-> <<>>, slide_count |-> 1,
                             current_slide |-> NewSlide("Introduction")],
                            text.paragraphs, 1)
    IN IF st.current_slide.bullets > 0
       THEN Append(st.slides, st.current_slide) ELSE st.slides

_create_slides_from_text(text, guidance) ==
    LET st == ParagraphRuns([slides |-> <<>>, slide_count |-> 1,
                             current_slide |-> NewSlide("Introduction")],
                            text.paragraphs, 1)
        slides == IF st.current_slide.bullets > 0
                  THEN Append(st.slides, st.current_slide) ELSE st.slides
    IN IF slides = <<>>
       THEN << [title |-> "Content Overview", layout_hint |-> "bullets", bullets |-> 1] >>
       ELSE slides

\* guidance.lower(), for the guidances of GuidanceTexts.
Lower(guidance) ==
    IF guidance \in {"Short deck", "SHORT"} THEN
        (IF guidance = "SHORT" THEN "short" ELSE "short deck")
    ELSE guidance

\* "short" in a lower-case guidance.
HasShort(lowered) == lowered \in {"short", "short deck", "shortly"}

\* The limit is 18 whatever the guidance.
MaxSlidesAlways18(guidance) == 18

\* Line 39.
max_slides(guidance) == IF HasShort(Lower(guidance)) THEN 12 ELSE 18

\* slides[:n]
FirstSlides(slides, n) == SubSeq(slides, 1, Min(n, Len(slides)))

rule_based_plan(text, guidance) ==
    LET st == TokenRuns([slides |-> <<>>, current_slide |-> NewSlide("Overview")],
                        text.tokens, 1)
        from_tokens == IF HasContent(st.current_slide)
                       THEN Append(st.slides, st.current_slide) ELSE st.slides
        slides == IF from_tokens = <<>> THEN _create_slides_from_text(text, guidance)
                  ELSE from_tokens
    IN FirstSlides(slides, max_slides(guidance))

(***************************************************************************)
(* make_slide_plan (backend/pptx_engine/slide_planner.py).  The answer of  *)
(* the LLM is held by what the validation reads of it: that the call       *)
(* raised, that the answer is no JSON, or the shape of the JSON value; an  *)
(* entry of its slides list carries whether it is an object and which of   *)
(* the three fields it holds.                                              *)
(***************************************************************************)
\* An answer without slides passes the validation.
AnswerAcceptedLax(llm) ==
    /\ llm.kind = "slides"
    /\ \A i \in 1 .. Len(llm.slides) : llm.slides[i].is_dict

\* Lines 63 to 83 raise nothing: the call returned, json.loads succeeded, the
\* value is an object whose "slides" is a list that is not empty, and every
\* entry is an object.
AnswerAccepted(llm) ==
    /\ llm.kind = "slides"
    /\ Len(llm.slides) > 0
    /\ \A i \in 1 .. Len(llm.slides) : llm.slides[i].is_dict

\* Lines 84 to 89: the fields an entry lacks are given their defaults.
Completed(entry) ==
    [title |-> IF "title" \in entry.fields THEN "llm" ELSE "Untitled Slide",
     layout_hint |-> IF "layout_hint" \in entry.fields THEN "llm" ELSE "bullets",
     bullets |-> IF "bullets" \in entry.fields THEN entry.bullets ELSE 0]

make_slide_plan(text, guidance, llm) ==
    IF AnswerAccepted(llm)
    THEN [slides |-> [i \in 1 .. Len(llm.slides) |-> Completed(llm.slides[i])]]
    ELSE [slides |-> rule_based_plan(text, guidance)]

(***************************************************************************)
(* SpecPlan: one text and one guidance, planned once, by rule_based_plan   *)
(* or by make_slide_plan with any answer of the LLM.                       *)
(***************************************************************************)
MaxRepeats == 20
MaxLlmSlides == 2

Heading(level) == [type |-> "heading_open", level |-> level, lines |-> 0]
Inline(lines) == [type |-> "inline", level |-> 0, lines |-> lines]
OtherToken == [type |-> "paragraph_open", level |-> 0, lines |-> 0]

\* The run repeated n times.
Repeat(run, n) == [k \in 1 .. n |-> run]

\* What comes before the first section: nothing, or a paragraph of one or of
\* two lines.
Preambles == { <<>>, <<OtherToken, Inline(1), OtherToken>>,
               <<OtherToken, Inline(1), OtherToken, OtherToken, Inline(2), OtherToken>> }

\* A section: a heading alone; a heading with a paragraph of one line or of
\* five lines; a heading of level 3 with a paragraph; a paragraph without
\* heading; a heading without text; a fence.
Sections ==
    { <<Heading(1), Inline(1), OtherToken>>,
      <<Heading(2), Inline(1), OtherToken, OtherToken, Inline(1), OtherToken>>,
      <<Heading(1), Inline(1), OtherToken, OtherToken, Inline(5), OtherToken>>,
      <<Heading(3), Inline(1), OtherToken, OtherToken, Inline(2), OtherToken>>,
      <<OtherToken, Inline(1), OtherToken>>,
      <<Heading(1), Inline(0), OtherToken>>,
      <<OtherToken>> }

ShortParagraph == [long |-> FALSE, sentences |-> 1]
LongParagraph(sentences) == [long |-> TRUE, sentences |-> sentences]

ParagraphPatterns ==
    { <<ShortParagraph>>, <<LongParagraph(1)>>, <<LongParagraph(6)>>,
      <<ShortParagraph, ShortParagraph, ShortParagraph, LongParagraph(3)>>,
      <<ShortParagraph, LongParagraph(2)>> }

\* The texts: the empty one and one of blanks only; texts with inline
\* content or headings; texts of which MarkdownIt gives no inline content
\* (indented or fenced blocks), with their paragraphs.
PlanTexts ==
    { [tokens |-> <<>>, paragraphs |-> <<>>, empty |-> e] : e \in BOOLEAN }
    \cup
    { [tokens |-> <<pre>> \o Repeat(section, n),
       paragraphs |-> Repeat(<<ShortParagraph>>, n), empty |-> FALSE] :
        pre \in Preambles, section \in Sections \ { <<OtherToken>> },
        n \in 1 .. MaxRepeats }
    \cup
    { [tokens |-> Repeat(<<OtherToken>>, Min(n, 2)),
       paragraphs |-> Repeat(pattern, n), empty |-> FALSE] :
        pattern \in ParagraphPatterns, n \in 1 .. MaxRepeats }

GuidanceTexts == { "", "short", "Short deck", "SHORT", "shortly", "detailed" }

LlmEntries ==
    { [is_dict |-> FALSE, fields |-> {}, bullets |-> 0] }
    \cup { [is_dict |-> TRUE, fields |-> f, bullets |-> 2] :
             f \in { {}, {"title"}, {"title", "layout_hint", "bullets"} } }

LlmAnswers ==
    { [kind |-> k, slides |-> <<>>] :
        k \in {"raises", "not_json", "not_object", "no_slides", "slides_not_list"} }
    \cup { [kind |-> "slides", slides |-> sl] : sl \in SeqsUpTo(LlmEntries, MaxLlmSlides) }

NoAnswer == [kind |-> "none", slides |-> <<>>]

InitPlan ==
    /\ \E text \in PlanTexts, guidance \in GuidanceTexts :
          plan_call = [pc |-> "created", text |-> text, guidance |-> guidance,
                       llm |-> NoAnswer, result |-> [slides |-> <<>>]]
    /\ font_call = Idle
    /\ bullets_call = Idle
    /\ placement_call = Idle
    /\ fill_call = Idle
    /\ doc = Idle
    /\ limit_call = Idle
    /\ guided = Idle

RuleBasedPlan ==
    /\ plan_call.pc = "created"
    /\ plan_call' = [plan_call EXCEPT
          !.pc = "planned",
          !.result = [slides |-> rule_based_plan(plan_call.text, plan_call.guidance)]]
    /\ UNCHANGED <<font_call, bullets_call, placement_call, fill_call, doc,
                 limit_call, guided>>

MakeSlidePlan ==
    /\ plan_call.pc = "created"
    /\ \E llm \in LlmAnswers :
          plan_call' = [plan_call EXCEPT
              !.pc = "made",
              !.llm = llm,
              !.result = make_slide_plan(plan_call.text, plan_call.guidance, llm)]
    /\ UNCHANGED <<font_call, bullets_call, placement_call, fill_call, doc,
                 limit_call, guided>>

NextPlan == RuleBasedPlan \/ MakeSlidePlan

SpecPlan == InitPlan /\ [][NextPlan]_vars

PlannedSlides == plan_call.result.slides

\* C13: rule_based_plan returns at most 12 slides when the guidance holds the
\* word "short" in any letter case, and at most 18 slides otherwise.
PlanWithinSlideLimit ==
    plan_call.pc = "planned" =>
        Len(PlannedSlides) <=
            (IF plan_call.guidance \in {"short", "Short deck", "SHORT"} THEN 12 ELSE 18)

\* C13 witness: a text of more than 12 sections planned under the guidance
\* "SHORT" into 12 slides.
ShortPlanCutToTwelve ==
    /\ plan_call.pc = "planned"
    /\ plan_call.guidance = "SHORT"
    /\ Len(plan_call.text.tokens) > 13
    /\ Len(PlannedSlides) = 12

\* C14 as stated: every slide rule_based_plan returns has at most 4 bullets.
PlanSlidesHaveAtMostFourBullets ==
    plan_call.pc = "planned" =>
        \A i \in 1 .. Len(PlannedSlides) : PlannedSlides[i].bullets <= 4

\* C15: rule_based_plan returns at least one slide, and every slide holds the
\* fields title, layout_hint and bullets.
PlanIsNeverEmpty ==
    plan_call.pc = "planned" =>
        /\ Len(PlannedSlides) >= 1
        /\ \A i \in 1 .. Len(PlannedSlides) :
              DOMAIN PlannedSlides[i] = {"title", "layout_hint", "bullets"}

\* C15 witness: the empty text planned into the one slide "Content Overview".
EmptyTextGivesOverviewSlide ==
    /\ plan_call.pc = "planned"
    /\ plan_call.text.empty
    /\ Len(PlannedSlides) = 1
    /\ PlannedSlides[1].title = "Content Overview"

\* C16: when the LLM call raises, or its answer is no JSON, no object, has no
\* "slides", has slides that are no list, an empty list or a list with an
\* entry that is no object, make_slide_plan returns the plan of
\* rule_based_plan, which has at least one slide.
FailedAnswerFallsBack ==
    (/\ plan_call.pc = "made"
     /\ \/ plan_call.llm.kind \in {"raises", "not_json", "not_object", "no_slides",
                                   "slides_not_list"}
        \/ /\ plan_call.llm.kind = "slides"
           /\ \/ plan_call.llm.slides = <<>>
              \/ \E i \in 1 .. Len(plan_call.llm.slides) :
                    ~ plan_call.llm.slides[i].is_dict)
        => /\ plan_call.result =
                 [slides |-> rule_based_plan(plan_call.text, plan_call.guidance)]
           /\ Len(PlannedSlides) >= 1

\* C16 witness: an answer whose slides list is empty, replaced by the plan of
\* the heuristic planner for a text of several sections.
EmptyAnswerFallsBack ==
    /\ plan_call.pc = "made"
    /\ plan_call.llm = [kind |-> "slides", slides |-> <<>>]
    /\ Len(PlannedSlides) > 1

\* C17 as stated: with a style context that holds the layout information, no
\* entry of the plan makes build_presentation raise.
ContentErrorDoesNotAbort ==
    (doc.pc # "idle" /\ doc.theme_has_layout_info) => doc.pc # "raised"

\* The last slide was added and filled; its layout and its hint.
SlideAdded == doc.pc \in {"building", "saved"} /\ doc.last # NoSlide
LastLayout == doc.last.layout_idx
LastHint == doc.last.slide_def.layout_hint
HasBody(layout) == \E k \in 1 .. Len(layout.shapes) : layout.shapes[k].type = BodyType
HasImage(layout) == \E k \in 1 .. Len(layout.shapes) : layout.shapes[k].type \in ImageTypes
NoKeyword ==
    LastHint \cap {"image", "picture", "photo", "visual", "section", "two", "title"} = {}

StyleContextReadOnly ==
    [][ /\ doc'.layouts = doc.layouts
        /\ doc'.images = doc.images
        /\ doc'.theme_has_layout_info = doc.theme_has_layout_info
        /\ doc'.theme_has_dimensions = doc.theme_has_dimensions ]_vars

\* C19: no step of build_presentation changes the layouts' placeholder and
\* font descriptors, the layout information of the theme or the image pool;
\* the theme is written only by the step that opens the template, only
\* when it lacks the slide dimensions, and only to gain them.
StyleContextOnlyGainsDimensions ==
    [][ /\ doc'.layouts = doc.layouts
        /\ doc'.images = doc.images
        /\ doc'.theme_has_layout_info = doc.theme_has_layout_info
        /\ doc.theme_has_dimensions => doc'.theme_has_dimensions
        /\ doc'.theme_has_dimensions # doc.theme_has_dimensions => doc.pc = "start"
        /\ doc'.theme_updated # doc.theme_updated
              => (doc.pc = "start" /\ ~ doc.theme_has_dimensions) ]_vars

\* A document was saved with a slide filled from the layout fonts, and the
\* theme of the style context was written on the way.
ThemeWrittenDuringBuild ==
    /\ doc.pc = "saved"
    /\ doc.theme_updated
    /\ doc.last # NoSlide
    /\ doc.layouts[doc.last.layout_idx + 1].info.body_font # NoFont

\* The base size, the area and title multipliers (in tenths) and the floor
\* of the fitted text.
FitBase ==
    IF font_call.font_info # NoFont THEN font_call.font_info
    ELSE IF font_call.is_title THEN 24 ELSE 18
FitArea == font_call.shape.width * font_call.shape.height
FitAreaTenths ==
    IF FitArea < 50000 THEN 5 ELSE IF FitArea < 100000 THEN 6
    ELSE IF FitArea < 200000 THEN 8 ELSE 10
FitTitleTenths == IF font_call.is_title /\ font_call.text_length > 50 THEN 7 ELSE 10
FitFloor == IF font_call.is_title THEN 8 ELSE 6

\* C20 as stated: the length multiplier is 1.0 under 30 characters, 0.8 from
\* 30, 0.7 from 50, 0.6 from 100 and 0.5 from 150 characters.
FontFitTiersStartAtBoundary ==
    font_call.pc = "fit" =>
        LET n == font_call.text_length
            m_len == IF n < 30 THEN 10 ELSE IF n < 50 THEN 8
                     ELSE IF n < 100 THEN 7 ELSE IF n < 150 THEN 6 ELSE 5
        IN font_call.new_size
               = Max(FitFloor, ReducedSize(FitBase, m_len, FitAreaTenths, FitTitleTenths))

\* C20: the font fit is max(floor, int(base_size * m_len * m_area * m_title))
\* where the length multiplier is 1.0 up to 30 characters, 0.8 for 31 to 50,
\* 0.7 for 51 to 100, 0.6 for 101 to 150 and 0.5 above 150; the result is
\* never below the floor, 8 for titles and 6 for body text.
FontFitTiersStartAboveBoundary ==
    font_call.pc = "fit" =>
        LET n == font_call.text_length
            m_len == IF n <= 30 THEN 10 ELSE IF n <= 50 THEN 8
                     ELSE IF n <= 100 THEN 7 ELSE IF n <= 150 THEN 6 ELSE 5
        IN /\ font_call.new_size
                 = Max(FitFloor, ReducedSize(FitBase, m_len, FitAreaTenths, FitTitleTenths))
           /\ font_call.new_size >= FitFloor

\* A body text of exactly 30 characters in a large placeholder keeps the
\* full base size of 20.
ThirtyCharactersAtFullSize ==
    /\ font_call.pc = "fit"
    /\ font_call.text_length = 30
    /\ ~ font_call.is_title
    /\ font_call.font_info = 20
    /\ FitArea >= 200000
    /\ font_call.new_size = 20

\* The reference of the capacity: the lines of a bullet, rounded up when
\* round_up and else floor(len / 40) + 1; the height of the first k bullets
\* at font_size * 1.5 points a line; the longest prefix within the
\* placeholder height less the margin (0 when not even one bullet fits);
\* one less when more than one bullet fits.
ReferenceLines(bullet, round_up) ==
    IF round_up
    THEN (IF bullet.len = 0 THEN 1 ELSE (bullet.len + 39) \div 40)
    ELSE (bullet.len \div 40) + 1
RECURSIVE ReferenceHeight(_, _, _, _)
ReferenceHeight(bullets, k, font_size, round_up) ==
    IF k = 0 THEN 0
    ELSE ReferenceHeight(bullets, k - 1, font_size, round_up)
             + ReferenceLines(bullets[k], round_up) * ((font_size * 3 * 12700) \div 2)
ReferenceCapacity(c, round_up) ==
    LET font_size == IF c.font_info = NoFont THEN 18 ELSE c.font_info
        available == (c.shape.height - 40) * 9144
        fitting == { k \in 1 .. Len(c.bullets) :
                       ReferenceHeight(c.bullets, k, font_size, round_up) <= available }
        candidate == IF fitting = {} THEN 0
                     ELSE CHOOSE k \in fitting : \A j \in fitting : j <= k
    IN IF candidate > 1 THEN candidate - 1 ELSE candidate

\* C21 as stated: the capacity equals the reference in which a bullet takes
\* max(1, ceil(len / 40)) lines.
CapacityEqualsCeilReference ==
    bullets_call.pc = "capacity" =>
        bullets_call.max_bullets = ReferenceCapacity(bullets_call, TRUE)

\* C21: the capacity equals the reference in which a bullet takes
\* floor(len / 40) + 1 lines, so that a bullet of exactly 40 characters
\* takes two lines.
CapacityEqualsFloorReference ==
    bullets_call.pc = "capacity" =>
        bullets_call.max_bullets = ReferenceCapacity(bullets_call, FALSE)

\* Three bullets of 40 characters where the two references differ: the
\* capacity is the one of two-line bullets.
FortyCharacterBulletsTakeTwoLines ==
    /\ bullets_call.pc = "capacity"
    /\ bullets_call.bullets = <<Line40, Line40, Line40>>
    /\ bullets_call.max_bullets >= 1
    /\ bullets_call.max_bullets < ReferenceCapacity(bullets_call, TRUE)

\* The area of the placeholder of the call, in squared hundredths of an inch.
LimitArea == limit_call.shape.width * limit_call.shape.height
EndsWithEllipsis(text) == "ellipsis" \in DOMAIN text

\* The result is the content when it is within the budget, and else a text
\* of at most budget characters that ends with the ellipsis marker.
LimitedTo(budget) ==
    /\ limit_call.content.len <= budget => limit_call.result = limit_call.content
    /\ limit_call.content.len > budget =>
          /\ EndsWithEllipsis(limit_call.result)
          /\ limit_call.result.len <= budget

\* C22 as stated: the budget is 50 characters for an area of at most 5
\* square inches, 100 for at most 10, 200 for at most 20, and else 400.
BudgetTiersIncludeBoundary ==
    limit_call.pc = "limited" =>
        LimitedTo(IF LimitArea <= 50000 THEN 50 ELSE IF LimitArea <= 100000 THEN 100
                  ELSE IF LimitArea <= 200000 THEN 200 ELSE 400)

\* C22: the budget is 50 characters for an area under 5 square inches, 100
\* under 10, 200 under 20, and else 400; a text within the budget is
\* returned as it is; a longer one is cut to exactly the budget and ends
\* with the ellipsis marker.
BudgetTiersExcludeBoundary ==
    limit_call.pc = "limited" =>
        LET budget == IF LimitArea < 50000 THEN 50 ELSE IF LimitArea < 100000 THEN 100
                      ELSE IF LimitArea < 200000 THEN 200 ELSE 400
        IN /\ LimitedTo(budget)
           /\ limit_call.content.len > budget => limit_call.result.len = budget

\* A text of 51 characters in a placeholder of exactly 5 square inches is
\* returned as it is.
FiveSquareInchesHoldHundred ==
    /\ limit_call.pc = "limited"
    /\ LimitArea = 50000
    /\ limit_call.content.len = 51
    /\ limit_call.result = limit_call.content

\* C23 as stated: every single-string fill (title, subtitle, leftover text)
\* went through the character cap, so its text is within the budget of its
\* placeholder, and no body fill went through it.
CapAppliedToEverySingleString ==
    fill_call.pc = "filled" =>
        \A i \in 1 .. Len(Writes) :
            /\ Writes[i].kind \in {"title", "subtitle", "content", "specific"} =>
                  Writes[i].text.len <= MaxChars(fill_call.shapes[Writes[i].pos].shape)
            /\ Writes[i].kind = "body" => ~ Writes[i].limited

\* The positions of the image-capable placeholders of the slide, and whether
\* the hint of the slide asks for visual content.
ImagePositions ==
    { p \in 1 .. Len(fill_call.shapes) : fill_call.shapes[p].type \in {18, 19, 20, 7} }
HintAsksForVisuals ==
    fill_call.slide_def.layout_hint
        \cap {"image", "picture", "visual", "photo", "media", "graphic"} # {}

\* C24: an image-capable placeholder never receives text; it receives an
\* image only when the hint asks for visual content and the pool is not
\* empty; otherwise it is left as it is and is not recorded as filled.
ImagePlaceholderOnlyTakesImages ==
    fill_call.pc = "filled" =>
        /\ \A i \in 1 .. Len(Writes) :
              /\ Writes[i].pos \in ImagePositions <=> Writes[i].kind = "image"
              /\ Writes[i].kind = "image" =>
                    (HintAsksForVisuals /\ fill_call.image_pool > 0)
        /\ ~ (HintAsksForVisuals /\ fill_call.image_pool > 0) =>
              /\ \A p \in ImagePositions :
                    fill_call.shapes[p].idx \notin fill_call.result.filled_placeholders
              /\ ~ fill_call.result.used_image_placeholder

\* A slide whose hint asks for an image while the pool is empty: the title
\* was written and the picture placeholder was left as it is.
PictureLeftWhenPoolEmpty ==
    /\ fill_call.pc = "filled"
    /\ HintAsksForVisuals
    /\ fill_call.image_pool = 0
    /\ ImagePositions # {}
    /\ Len(Writes) = 1
    /\ Writes[1].kind = "title"

\* The corners tried for the image of the call and the buffered rectangles
\* of the shapes of its slide.
CallCorners ==
    LET corners == CornerPositions(placement_call.slide.slide_width,
                                   placement_call.slide.slide_height,
                                   placement_call.image_data)
    IN { corners[i] : i \in 1 .. 3 }
CallAreas ==
    { Buffered(placement_call.slide.shapes[i]) :
        i \in 1 .. Len(placement_call.slide.shapes) }

\* One rectangle lies entirely to the left of, to the right of, above or
\* below the other; equal coordinates on a side count as apart.
Apart(a, b) ==
    \/ a.right <= b.left
    \/ b.right <= a.left
    \/ a.bottom <= b.top
    \/ b.bottom <= a.top

\* The two rectangles share a side coordinate and nothing more.
ShareEdgeOnly(a, b) ==
    /\ a.left = b.right \/ a.right = b.left \/ a.top = b.bottom \/ a.bottom = b.top
    /\ Apart(a, b)

\* C25: on every corner and every buffered shape rectangle of a slide the
\* overlap test is true exactly when neither rectangle lies entirely to one
\* side of the other, rectangles that only share an edge are reported as not
\* overlapping, and the result is the same with the arguments swapped.
OverlapIsSeparatingAxisTest ==
    placement_call.pc = "place" =>
        \A c \in CallCorners, t \in CallAreas :
            /\ _areas_overlap(c, t) <=> ~ Apart(Sides(c), t)
            /\ ShareEdgeOnly(Sides(c), t) => ~ _areas_overlap(c, t)
            /\ _areas_overlap(c, t) <=> _areas_overlap(t, c)

\* A corner and a buffered shape that only share an edge, and another pair
\* that overlaps, on the same slide.
EdgeSharingAndOverlappingPairs ==
    /\ placement_call.pc = "place"
    /\ \E c \in CallCorners, t \in CallAreas :
          ShareEdgeOnly(Sides(c), t) /\ ~ _areas_overlap(c, t)
    /\ \E c \in CallCorners, t \in CallAreas : _areas_overlap(c, t)

\* C26 as stated, its last clause: the text of a subtitle fill never holds a
\* bullet that a placeholder filled before it already holds.
SubtitleNeverRepeatsConsumedContent ==
    fill_call.pc = "filled" =>
        \A i, j \in 1 .. Len(Writes) :
            (Writes[i].kind = "subtitle" /\ j < i) =>
                Writes[i].bullet_idxs \cap Writes[j].bullet_idxs = {}

\* The fills of the text placeholders that are neither title, body,
\* subtitle, content nor footer, and the slides made of such placeholders
\* only, with bullets of pairwise different texts.
SupplementalWrites ==
    { i \in 1 .. Len(Writes) :
        Writes[i].kind = "specific" /\ Writes[i].type \notin {13, 14, 15, 16} }
OnlySupplementalPlaceholders ==
    /\ \A p \in 1 .. Len(fill_call.shapes) : fill_call.shapes[p].type = 4
    /\ \A a, b \in 1 .. Len(fill_call.slide_def.bullets) :
          a # b => fill_call.slide_def.bullets[a] # fill_call.slide_def.bullets[b]

LastLedger == doc.last.result
LastKinds == { LastWrites[i].kind : i \in 1 .. Len(LastWrites) }

\* C28: the ledger a slide leaves holds only what the fills of that slide
\* put into it, whatever slides were filled before it: the consumed
\* placeholder indices are those of its fills, a flag is set only when a
\* fill of that slide set it, and a bullet is marked only when a fill of
\* that slide marked it.
LedgerHoldsOnlyThisSlide ==
    SlideAdded =>
        /\ LastLedger.filled_placeholders
               = { LastWrites[i].idx : i \in 1 .. Len(LastWrites) }
        /\ LastLedger.content_usage_tracker.title_used <=> "title" \in LastKinds
        /\ LastLedger.content_usage_tracker.main_content_filled <=> "body" \in LastKinds
        /\ LastLedger.used_image_placeholder <=> "image" \in LastKinds
        /\ LastLedger.content_usage_tracker.bullets_used
               \subseteq 0 .. (Len(doc.last.slide_def.bullets) - 1)
        /\ LastLedger.content_usage_tracker.bullets_used # {} =>
               \E i \in 1 .. Len(LastWrites) :
                   LastWrites[i].kind = "body" \/ LastWrites[i].bullet_idxs # {}

\* Two slides on the only layout of a template, a picture placeholder: the
\* second slide filled the placeholder index the first slide had filled.
SecondSlideFillsSameIndex ==
    /\ doc.pc = "saved"
    /\ doc.slides = 2
    /\ Len(doc.layouts) = 1
    /\ Len(doc.image_log) = 2
    /\ \E i \in 1 .. Len(LastWrites) : LastWrites[i].kind = "image" /\ LastWrites[i].idx = 0

(***************************************************************************)
(* The LLM-guided builder: _build_presentation_from_llm_guidance of app.py *)
(* (the same code as _build_presentation_from_llm_plan of                  *)
(* llm_guided_writer.py).  A layout is the sequence of the types of its    *)
(* placeholders; an entry of the plan holds its layout_index, if it has    *)
(* one, and its placeholders, a function from the names the plan uses to   *)
(* the kind of content given for each: a string, a list, a dictionary     *)
(* with use_image, or a dictionary with a text.                            *)
(***************************************************************************)
\* The placeholder type each name of the plan stands for.
placeholder_type_mapping ==
    [title |-> 1, body_content |-> 2, subtitle |-> 3, object_or_image |-> 7,
     text |-> 13, content |-> 14, picture |-> 18, clip_art |-> 19, media |-> 20]

\* slide_plan.get("layout_index", 1)
DefaultLayoutIndex == 1

\* The index after the test against the number of layouts.
ValidatedLayoutIndex(slide_plan, n_layouts) ==
    LET layout_index == IF slide_plan.has_layout_index THEN slide_plan.layout_index
                        ELSE DefaultLayoutIndex
    IN IF layout_index >= n_layouts THEN 1 ELSE layout_index

\* prs.slide_layouts[layout_index] raises IndexError outside -n .. n-1.
IndexInRange(layout_index, n_layouts) ==
    layout_index < n_layouts /\ layout_index >= 0 - n_layouts

\* The position, from 1, of the layout a list index in range selects.
LayoutAt(layout_index, n_layouts) ==
    IF layout_index >= 0 THEN layout_index + 1 ELSE n_layouts + layout_index + 1

\* any(p.get("use_image", False) for p in placeholders_plan.values() if isinstance(p, dict))
AnyUseImage(placeholders_plan) ==
    \E name \in DOMAIN placeholders_plan : placeholders_plan[name] = "use_image"

\* The name of the plan a placeholder type is filled from, if any.
NamesFor(placeholder_type, placeholders_plan) ==
    { name \in DOMAIN placeholders_plan : placeholder_type_mapping[name] = placeholder_type }

\* _fill_slide_according_to_llm_plan, from the placeholder at position i on:
\* the fills it makes, in order.
RECURSIVE _fill_slide_according_to_llm_plan(_, _, _, _, _)
_fill_slide_according_to_llm_plan(shapes, i, placeholders_plan, image_pool, image_usage_count) ==
    IF i > Len(shapes) THEN <<>>
    ELSE LET names == NamesFor(shapes[i], placeholders_plan)
             content == placeholders_plan[CHOOSE name \in names : TRUE]
             fill == IF names = {} THEN <<>>
                     ELSE IF content \in {"str", "list", "text"}
                     THEN << [pos |-> i, kind |-> "text", image_idx |-> -1] >>
                     ELSE IF content = "use_image" /\ image_pool > 0
                     THEN << [pos |-> i, kind |-> "image",
                              image_idx |-> image_usage_count % image_pool] >>
                     ELSE <<>>
         IN fill \o _fill_slide_according_to_llm_plan(shapes, i + 1, placeholders_plan,
                                                      image_pool, image_usage_count)

(***************************************************************************)
(* SpecGuided: a document built from a plan of the LLM, read one entry at  *)
(* a time; image_log keeps the pool entry of every image fill.             *)
(***************************************************************************)
MaxGuidedSlides == 3
MaxLayoutIndex == 3

\* Templates of one layout and of three layouts, with none, one and two
\* picture placeholders.
GuidedTemplates ==
    { << <<1, 2>> >>,
      << <<1, 3>>, <<1, 2>>, <<1, 18>> >>,
      << <<1, 3>>, <<1, 2, 18>>, <<1, 18, 18>> >> }

GuidedPlaceholderPlans ==
    { [title |-> "str"],
      [title |-> "str", body_content |-> "list"],
      [title |-> "str", picture |-> "use_image"],
      [title |-> "str", picture |-> "text"],
      [title |-> "str", media |-> "use_image"] }

GuidedSlidePlans ==
    { [has_layout_index |-> TRUE, layout_index |-> i, placeholders |-> p] :
        i \in (0 - MaxLayoutIndex - 1) .. MaxLayoutIndex, p \in GuidedPlaceholderPlans }
    \cup
    { [has_layout_index |-> FALSE, layout_index |-> 0, placeholders |-> p] :
        p \in GuidedPlaceholderPlans }

InitGuided ==
    /\ \E t \in GuidedTemplates, pool \in 0 .. MaxPool :
          guided = [pc |-> "start", layouts |-> t, image_pool |-> pool,
                    image_usage_count |-> 0, slides |-> 0,
                    layout_index |-> 0, fills |-> <<>>, image_log |-> <<>>]
    /\ font_call = Idle
    /\ bullets_call = Idle
    /\ placement_call = Idle
    /\ fill_call = Idle
    /\ doc = Idle
    /\ plan_call = Idle
    /\ limit_call = Idle

\* The template is opened and its slides are dropped.
OpenGuided ==
    /\ guided.pc = "start"
    /\ guided' = [guided EXCEPT !.pc = "building", !.image_usage_count = 0]
    /\ UNCHANGED <<font_call, bullets_call, placement_call, fill_call, doc, plan_call,
                 limit_call>>

\* The image fills of a slide, in order.
RECURSIVE GuidedImageIndexes(_, _)
GuidedImageIndexes(fills, i) ==
    IF i > Len(fills) THEN <<>>
    ELSE (IF fills[i].kind = "image" THEN <<fills[i].image_idx>> ELSE <<>>)
             \o GuidedImageIndexes(fills, i + 1)

\* One turn of the loop over llm_plan["slides"].
AddGuidedSlide ==
    /\ guided.pc = "building"
    /\ guided.slides < MaxGuidedSlides
    /\ \E slide_plan \in GuidedSlidePlans :
          LET n_layouts == Len(guided.layouts)
              layout_index == ValidatedLayoutIndex(slide_plan, n_layouts)
              fills == _fill_slide_according_to_llm_plan(
                           guided.layouts[LayoutAt(layout_index, n_layouts)], 1,
                           slide_plan.placeholders, guided.image_pool,
                           guided.image_usage_count)
          IN IF IndexInRange(layout_index, n_layouts)
             THEN guided' = [guided EXCEPT
                    !.slides = @ + 1,
                    !.layout_index = layout_index,
                    !.fills = fills,
                    !.image_log = @ \o GuidedImageIndexes(fills, 1),
                    !.image_usage_count =
                        IF AnyUseImage(slide_plan.placeholders) THEN @ + 1 ELSE @]
             \* prs.slide_layouts[layout_index] raises IndexError; nothing in
             \* the builder catches it.
             ELSE guided' = [guided EXCEPT !.pc = "raised", !.layout_index = layout_index]
    /\ UNCHANGED <<font_call, bullets_call, placement_call, fill_call, doc, plan_call,
                 limit_call>>

\* The plan is exhausted and the document is saved.
SaveGuided ==
    /\ guided.pc = "building"
    /\ guided' = [guided EXCEPT !.pc = "saved"]
    /\ UNCHANGED <<font_call, bullets_call, placement_call, fill_call, doc, plan_call,
                 limit_call>>

NextGuided == OpenGuided \/ AddGuidedSlide \/ SaveGuided

SpecGuided == InitGuided /\ [][NextGuided]_vars

\* C29 as stated: the i-th image fill of a document of the guided builder,
\* counted from 0 over every image placeholder filled, uses pool entry
\* i mod N.
GuidedImagePoolCycles ==
    guided.pc \in {"building", "saved"} =>
        \A i \in 1 .. Len(guided.image_log) :
            guided.image_log[i] = (i - 1) % guided.image_pool

\* C30 as stated: whatever layout_index an entry of the plan holds, the
\* access to the template's layouts is never out of range and the document
\* is not aborted.
GuidedLayoutIndexAlwaysValid ==
    guided.pc # "idle" => guided.pc # "raised"

====
